---- MODULE Spec2Model ----
(***************************************************************************)
(* The RDF term algebra of lib/src/model/triple.rs: the unions             *)
(* NamedOrBlankNode, Term and GraphName, the aggregates Triple and Quad,   *)
(* their borrowed twins (the Ref types) and the conversions between them   *)
(* and into                                                                *)
(* the rio interchange types.                                              *)
(*                                                                         *)
(* A value is a record.  Its field ty is the Rust type it has, so that a   *)
(* conversion between two types is never the identity; a union value also  *)
(* has the field tag (the active variant) and, unless the variant is       *)
(* DefaultGraph, the field node (the payload).  Text is a TLA+ string and  *)
(* Display output is built by concatenation.                               *)
(***************************************************************************)
EXTENDS Naturals, Sequences, FiniteSets, TLC

\* ------------------------------------------------------------------------
\* Bounds: how many IRIs, blank node identifiers and literal lexical forms
\* the inputs are drawn from, and how many operations a run applies.
NumIris == 2
NumBlankIds == 2
NumValues == 1
MaxOps == 2

IriPool == <<"http://ex/p", "http://ex/g", "b1", "v">>
BlankIdPool == <<"b1", "http://ex/p", "http://ex/g", "v">>
ValuePool == <<"v", "b1", "http://ex/p">>
LanguagePool == <<"en">>
DatatypePool == <<"http://ex/dt">>

Prefix(pool, n) == {pool[i] : i \in 1..(IF n < Len(pool) THEN n ELSE Len(pool))}

Iris == Prefix(IriPool, NumIris)
BlankIds == Prefix(BlankIdPool, NumBlankIds)
Values == Prefix(ValuePool, NumValues)
Languages == Prefix(LanguagePool, 1)
Datatypes == Prefix(DatatypePool, 1)

\* ------------------------------------------------------------------------
\* Option<T>: None(T) is the None of Option<T>.
None(T) == [ty |-> "Option", of |-> T, opt |-> "None"]
Some(x) == [ty |-> "Option", of |-> x.ty, opt |-> "Some", some |-> x]

\* ------------------------------------------------------------------------
\* The primitive node types (named_node.rs, blank_node.rs, literal.rs) and
\* the rio interchange types with their formatter.  Literal texts of the
\* pools hold no character that the formatter escapes.
NamedNode(iri) == [ty |-> "NamedNode", iri |-> iri]
NamedNodeRef(iri) == [ty |-> "NamedNodeRef", iri |-> iri]
BlankNode(id) == [ty |-> "BlankNode", id |-> id]
BlankNodeRef(id) == [ty |-> "BlankNodeRef", id |-> id]

NamedNode_as_ref(n) == NamedNodeRef(n.iri)
NamedNodeRef_into_owned(n) == NamedNode(n.iri)
BlankNode_as_ref(n) == BlankNodeRef(n.id)
BlankNodeRef_into_owned(n) == BlankNode(n.id)

Literal_as_ref(l) ==
    IF l.kind = "Typed"
    THEN [l EXCEPT !.ty = "LiteralRef", !.datatype = NamedNode_as_ref(@)]
    ELSE [l EXCEPT !.ty = "LiteralRef"]
LiteralRef_into_owned(l) ==
    IF l.kind = "Typed"
    THEN [l EXCEPT !.ty = "Literal", !.datatype = NamedNodeRef_into_owned(@)]
    ELSE [l EXCEPT !.ty = "Literal"]

rio_NamedNode_from(n) == [ty |-> "rio::NamedNode", iri |-> n.iri]
rio_BlankNode_from(n) == [ty |-> "rio::BlankNode", id |-> n.id]
rio_Literal_from(l) ==
    IF l.kind = "Typed"
    THEN [l EXCEPT !.ty = "rio::Literal", !.datatype = rio_NamedNode_from(@)]
    ELSE [l EXCEPT !.ty = "rio::Literal"]

rio_NamedNode_fmt(n) == "<" \o n.iri \o ">"
rio_BlankNode_fmt(n) == "_:" \o n.id
rio_Literal_fmt(l) ==
    CASE l.kind = "Simple" -> "\"" \o l.value \o "\""
      [] l.kind = "LanguageTaggedString" ->
            "\"" \o l.value \o "\"@" \o l.language
      [] l.kind = "Typed" ->
            "\"" \o l.value \o "\"^^" \o rio_NamedNode_fmt(l.datatype)

NamedNodeRef_fmt(n) == rio_NamedNode_fmt(rio_NamedNode_from(n))
BlankNodeRef_fmt(n) == rio_BlankNode_fmt(rio_BlankNode_from(n))
LiteralRef_fmt(l) == rio_Literal_fmt(rio_Literal_from(l))

\* rio::NamedOrBlankNode and rio::Term: From<rio::NamedNode> and so on wrap
\* the node in the variant of its kind; Display delegates to the payload.
rio_NamedOrBlankNode_from(n) ==
    [ty |-> "rio::NamedOrBlankNode",
     tag |-> IF n.ty = "rio::NamedNode" THEN "NamedNode" ELSE "BlankNode",
     node |-> n]
rio_Term_from(n) ==
    [ty |-> "rio::Term",
     tag |-> CASE n.ty = "rio::NamedNode" -> "NamedNode"
               [] n.ty = "rio::BlankNode" -> "BlankNode"
               [] n.ty = "rio::Literal" -> "Literal",
     node |-> n]
rio_Node_fmt(u) ==
    CASE u.tag = "NamedNode" -> rio_NamedNode_fmt(u.node)
      [] u.tag = "BlankNode" -> rio_BlankNode_fmt(u.node)
      [] u.tag = "Literal" -> rio_Literal_fmt(u.node)
rio_Triple_fmt(t) ==
    rio_Node_fmt(t.subject) \o " " \o rio_NamedNode_fmt(t.predicate)
        \o " " \o rio_Node_fmt(t.object)
rio_Quad_fmt(q) ==
    rio_Node_fmt(q.subject) \o " " \o rio_NamedNode_fmt(q.predicate)
        \o " " \o rio_Node_fmt(q.object)
        \o (IF q.graph_name.opt = "Some"
            THEN " " \o rio_Node_fmt(q.graph_name.some) ELSE "")

\* ------------------------------------------------------------------------
\* NamedOrBlankNode / NamedOrBlankNodeRef
NamedOrBlankNode_NamedNode(node) ==
    [ty |-> "NamedOrBlankNode", tag |-> "NamedNode", node |-> node]
NamedOrBlankNode_BlankNode(node) ==
    [ty |-> "NamedOrBlankNode", tag |-> "BlankNode", node |-> node]
NamedOrBlankNodeRef_NamedNode(node) ==
    [ty |-> "NamedOrBlankNodeRef", tag |-> "NamedNode", node |-> node]
NamedOrBlankNodeRef_BlankNode(node) ==
    [ty |-> "NamedOrBlankNodeRef", tag |-> "BlankNode", node |-> node]

NamedOrBlankNode_as_ref(self) ==
    CASE self.tag = "NamedNode" ->
            NamedOrBlankNodeRef_NamedNode(NamedNode_as_ref(self.node))
      [] self.tag = "BlankNode" ->
            NamedOrBlankNodeRef_BlankNode(BlankNode_as_ref(self.node))

NamedOrBlankNodeRef_is_named_node(self) ==
    CASE self.tag = "NamedNode" -> TRUE
      [] self.tag = "BlankNode" -> FALSE
NamedOrBlankNodeRef_is_blank_node(self) ==
    CASE self.tag = "NamedNode" -> FALSE
      [] self.tag = "BlankNode" -> TRUE
NamedOrBlankNode_is_named_node(self) ==
    NamedOrBlankNodeRef_is_named_node(NamedOrBlankNode_as_ref(self))
NamedOrBlankNode_is_blank_node(self) ==
    NamedOrBlankNodeRef_is_blank_node(NamedOrBlankNode_as_ref(self))

NamedOrBlankNodeRef_into_owned(self) ==
    CASE self.tag = "NamedNode" ->
            NamedOrBlankNode_NamedNode(NamedNodeRef_into_owned(self.node))
      [] self.tag = "BlankNode" ->
            NamedOrBlankNode_BlankNode(BlankNodeRef_into_owned(self.node))

NamedOrBlankNodeRef_fmt(self) ==
    CASE self.tag = "NamedNode" -> NamedNodeRef_fmt(self.node)
      [] self.tag = "BlankNode" -> BlankNodeRef_fmt(self.node)
NamedOrBlankNode_fmt(self) ==
    NamedOrBlankNodeRef_fmt(NamedOrBlankNode_as_ref(self))

rio_NamedOrBlankNode_from_NamedOrBlankNodeRef(node) ==
    CASE node.tag = "NamedNode" ->
            rio_NamedOrBlankNode_from(rio_NamedNode_from(node.node))
      [] node.tag = "BlankNode" ->
            rio_NamedOrBlankNode_from(rio_BlankNode_from(node.node))

\* #[derive(PartialEq)] on an enum: the same variant and equal payloads.
\* The payloads are compared by the primitives' own equality, on their text.
Payload_eq(a, b) == a = b
\* #[derive(Hash)]: what the value writes to the Hasher, in order: an enum
\* its discriminant and then its payload, a struct its fields.  Two values
\* have the same hash when they write the same sequence.
Payload_hash(n) ==
    CASE n.ty \in {"NamedNode", "NamedNodeRef"} -> <<n.iri>>
      [] n.ty \in {"BlankNode", "BlankNodeRef"} -> <<n.id>>
      [] n.ty \in {"Literal", "LiteralRef"} ->
            CASE n.kind = "Simple" -> <<0, n.value>>
              [] n.kind = "LanguageTaggedString" -> <<1, n.value, n.language>>
              [] n.kind = "Typed" -> <<2, n.value, n.datatype.iri>>
NamedOrBlankNode_hash(x) ==
    CASE x.tag = "NamedNode" -> <<0>> \o Payload_hash(x.node)
      [] x.tag = "BlankNode" -> <<1>> \o Payload_hash(x.node)

\* Equality of NamedOrBlankNode that compares the text and not the variant.
NamedOrBlankNode_eq_TextOnly(a, b) ==
    (IF a.tag = "NamedNode" THEN a.node.iri ELSE a.node.id)
        = (IF b.tag = "NamedNode" THEN b.node.iri ELSE b.node.id)

NamedOrBlankNode_eq(a, b) ==
    CASE a.tag = "NamedNode" /\ b.tag = "NamedNode" -> Payload_eq(a.node, b.node)
      [] a.tag = "BlankNode" /\ b.tag = "BlankNode" -> Payload_eq(a.node, b.node)
      [] OTHER -> FALSE

\* ------------------------------------------------------------------------
\* Term / TermRef
Term_NamedNode(node) == [ty |-> "Term", tag |-> "NamedNode", node |-> node]
Term_BlankNode(node) == [ty |-> "Term", tag |-> "BlankNode", node |-> node]
Term_Literal(node) == [ty |-> "Term", tag |-> "Literal", node |-> node]
TermRef_NamedNode(node) == [ty |-> "TermRef", tag |-> "NamedNode", node |-> node]
TermRef_BlankNode(node) == [ty |-> "TermRef", tag |-> "BlankNode", node |-> node]
TermRef_Literal(node) == [ty |-> "TermRef", tag |-> "Literal", node |-> node]

Term_as_ref(self) ==
    CASE self.tag = "NamedNode" -> TermRef_NamedNode(NamedNode_as_ref(self.node))
      [] self.tag = "BlankNode" -> TermRef_BlankNode(BlankNode_as_ref(self.node))
      [] self.tag = "Literal" -> TermRef_Literal(Literal_as_ref(self.node))

TermRef_is_named_node(self) ==
    CASE self.tag = "NamedNode" -> TRUE
      [] OTHER -> FALSE
TermRef_is_blank_node(self) ==
    CASE self.tag = "BlankNode" -> TRUE
      [] OTHER -> FALSE
\* TermRef::is_literal that answers true for everything but a NamedNode.
TermRef_is_literal_NotNamed(self) ==
    CASE self.tag = "NamedNode" -> FALSE
      [] OTHER -> TRUE

TermRef_is_literal(self) ==
    CASE self.tag = "Literal" -> TRUE
      [] OTHER -> FALSE
Term_is_named_node(self) == TermRef_is_named_node(Term_as_ref(self))
Term_is_blank_node(self) == TermRef_is_blank_node(Term_as_ref(self))
Term_is_literal(self) == TermRef_is_literal(Term_as_ref(self))

TermRef_into_owned(self) ==
    CASE self.tag = "NamedNode" -> Term_NamedNode(NamedNodeRef_into_owned(self.node))
      [] self.tag = "BlankNode" -> Term_BlankNode(BlankNodeRef_into_owned(self.node))
      [] self.tag = "Literal" -> Term_Literal(LiteralRef_into_owned(self.node))

TermRef_fmt(self) ==
    CASE self.tag = "NamedNode" -> NamedNodeRef_fmt(self.node)
      [] self.tag = "BlankNode" -> BlankNodeRef_fmt(self.node)
      [] self.tag = "Literal" -> LiteralRef_fmt(self.node)
Term_fmt(self) == TermRef_fmt(Term_as_ref(self))

\* impl From<NamedNode> for Term, From<BlankNode> for Term and the Ref twins
Term_from_NamedNode(node) == Term_NamedNode(node)
Term_from_BlankNode(node) == Term_BlankNode(node)
TermRef_from_NamedNodeRef(node) == TermRef_NamedNode(node)
TermRef_from_BlankNodeRef(node) == TermRef_BlankNode(node)

\* The widening conversions
Term_from_NamedOrBlankNode(node) ==
    CASE node.tag = "NamedNode" -> Term_from_NamedNode(node.node)
      [] node.tag = "BlankNode" -> Term_from_BlankNode(node.node)
TermRef_from_NamedOrBlankNodeRef(node) ==
    CASE node.tag = "NamedNode" -> TermRef_from_NamedNodeRef(node.node)
      [] node.tag = "BlankNode" -> TermRef_from_BlankNodeRef(node.node)

rio_Term_from_TermRef(node) ==
    CASE node.tag = "NamedNode" -> rio_Term_from(rio_NamedNode_from(node.node))
      [] node.tag = "BlankNode" -> rio_Term_from(rio_BlankNode_from(node.node))
      [] node.tag = "Literal" -> rio_Term_from(rio_Literal_from(node.node))

Term_eq(a, b) ==
    CASE a.tag = "NamedNode" /\ b.tag = "NamedNode" -> Payload_eq(a.node, b.node)
      [] a.tag = "BlankNode" /\ b.tag = "BlankNode" -> Payload_eq(a.node, b.node)
      [] a.tag = "Literal" /\ b.tag = "Literal" -> Payload_eq(a.node, b.node)
      [] OTHER -> FALSE

Term_hash(x) ==
    CASE x.tag = "NamedNode" -> <<0>> \o Payload_hash(x.node)
      [] x.tag = "BlankNode" -> <<1>> \o Payload_hash(x.node)
      [] x.tag = "Literal" -> <<2>> \o Payload_hash(x.node)

\* ------------------------------------------------------------------------
\* GraphName / GraphNameRef
GraphName_NamedNode(node) == [ty |-> "GraphName", tag |-> "NamedNode", node |-> node]
GraphName_BlankNode(node) == [ty |-> "GraphName", tag |-> "BlankNode", node |-> node]
GraphName_DefaultGraph == [ty |-> "GraphName", tag |-> "DefaultGraph"]
GraphNameRef_NamedNode(node) ==
    [ty |-> "GraphNameRef", tag |-> "NamedNode", node |-> node]
GraphNameRef_BlankNode(node) ==
    [ty |-> "GraphNameRef", tag |-> "BlankNode", node |-> node]
GraphNameRef_DefaultGraph == [ty |-> "GraphNameRef", tag |-> "DefaultGraph"]

\* GraphName::as_ref whose BlankNode arm yields DefaultGraph.
GraphName_as_ref_BlankToDefault(self) ==
    CASE self.tag = "NamedNode" ->
            GraphNameRef_NamedNode(NamedNode_as_ref(self.node))
      [] self.tag = "BlankNode" -> GraphNameRef_DefaultGraph
      [] self.tag = "DefaultGraph" -> GraphNameRef_DefaultGraph

GraphName_as_ref(self) ==
    CASE self.tag = "NamedNode" ->
            GraphNameRef_NamedNode(NamedNode_as_ref(self.node))
      [] self.tag = "BlankNode" ->
            GraphNameRef_BlankNode(BlankNode_as_ref(self.node))
      [] self.tag = "DefaultGraph" -> GraphNameRef_DefaultGraph

GraphNameRef_is_named_node(self) ==
    CASE self.tag = "NamedNode" -> TRUE
      [] OTHER -> FALSE
GraphNameRef_is_blank_node(self) ==
    CASE self.tag = "BlankNode" -> TRUE
      [] OTHER -> FALSE
GraphNameRef_is_default_graph(self) ==
    CASE self.tag = "DefaultGraph" -> TRUE
      [] OTHER -> FALSE
GraphName_is_named_node(self) == GraphNameRef_is_named_node(GraphName_as_ref(self))
GraphName_is_blank_node(self) == GraphNameRef_is_blank_node(GraphName_as_ref(self))
GraphName_is_default_graph(self) ==
    GraphNameRef_is_default_graph(GraphName_as_ref(self))

GraphNameRef_into_owned(self) ==
    CASE self.tag = "NamedNode" ->
            GraphName_NamedNode(NamedNodeRef_into_owned(self.node))
      [] self.tag = "BlankNode" ->
            GraphName_BlankNode(BlankNodeRef_into_owned(self.node))
      [] self.tag = "DefaultGraph" -> GraphName_DefaultGraph

\* Display for GraphNameRef that writes nothing for DefaultGraph.
GraphNameRef_fmt_EmptyDefault(self) ==
    CASE self.tag = "NamedNode" -> NamedNodeRef_fmt(self.node)
      [] self.tag = "BlankNode" -> BlankNodeRef_fmt(self.node)
      [] self.tag = "DefaultGraph" -> ""

GraphNameRef_fmt(self) ==
    CASE self.tag = "NamedNode" -> NamedNodeRef_fmt(self.node)
      [] self.tag = "BlankNode" -> BlankNodeRef_fmt(self.node)
      [] self.tag = "DefaultGraph" -> "DEFAULT"
GraphName_fmt(self) == GraphNameRef_fmt(GraphName_as_ref(self))

GraphName_from_NamedNode(node) == GraphName_NamedNode(node)
GraphName_from_BlankNode(node) == GraphName_BlankNode(node)
GraphName_from_NamedOrBlankNode(node) ==
    CASE node.tag = "NamedNode" -> GraphName_from_NamedNode(node.node)
      [] node.tag = "BlankNode" -> GraphName_from_BlankNode(node.node)
GraphName_from_Option(name) ==
    IF name.opt = "Some"
    THEN GraphName_from_NamedOrBlankNode(name.some)
    ELSE GraphName_DefaultGraph
\* From<GraphName> for Option<NamedOrBlankNode> whose BlankNode arm yields None.
Option_from_GraphName_BlankToNone(name) ==
    CASE name.tag = "NamedNode" -> Some(NamedOrBlankNode_NamedNode(name.node))
      [] name.tag = "BlankNode" -> None("NamedOrBlankNode")
      [] name.tag = "DefaultGraph" -> None("NamedOrBlankNode")

Option_from_GraphName(name) ==
    CASE name.tag = "NamedNode" -> Some(NamedOrBlankNode_NamedNode(name.node))
      [] name.tag = "BlankNode" -> Some(NamedOrBlankNode_BlankNode(name.node))
      [] name.tag = "DefaultGraph" -> None("NamedOrBlankNode")

GraphNameRef_from_NamedNodeRef(node) == GraphNameRef_NamedNode(node)
GraphNameRef_from_BlankNodeRef(node) == GraphNameRef_BlankNode(node)
GraphNameRef_from_NamedOrBlankNodeRef(node) ==
    CASE node.tag = "NamedNode" -> GraphNameRef_from_NamedNodeRef(node.node)
      [] node.tag = "BlankNode" -> GraphNameRef_from_BlankNodeRef(node.node)
GraphNameRef_from_Option(name) ==
    IF name.opt = "Some"
    THEN GraphNameRef_from_NamedOrBlankNodeRef(name.some)
    ELSE GraphNameRef_DefaultGraph
Option_from_GraphNameRef(name) ==
    CASE name.tag = "NamedNode" -> Some(NamedOrBlankNodeRef_NamedNode(name.node))
      [] name.tag = "BlankNode" -> Some(NamedOrBlankNodeRef_BlankNode(name.node))
      [] name.tag = "DefaultGraph" -> None("NamedOrBlankNodeRef")

\* From<GraphNameRef> for Option<rio::NamedOrBlankNode> whose BlankNode arm
\* yields None.
rio_Option_from_GraphNameRef_BlankToNone(name) ==
    CASE name.tag = "NamedNode" ->
            Some(rio_NamedOrBlankNode_from(rio_NamedNode_from(name.node)))
      [] name.tag = "BlankNode" -> None("rio::NamedOrBlankNode")
      [] name.tag = "DefaultGraph" -> None("rio::NamedOrBlankNode")

rio_Option_from_GraphNameRef(name) ==
    CASE name.tag = "NamedNode" ->
            Some(rio_NamedOrBlankNode_from(rio_NamedNode_from(name.node)))
      [] name.tag = "BlankNode" ->
            Some(rio_NamedOrBlankNode_from(rio_BlankNode_from(name.node)))
      [] name.tag = "DefaultGraph" -> None("rio::NamedOrBlankNode")

GraphName_eq(a, b) ==
    CASE a.tag = "NamedNode" /\ b.tag = "NamedNode" -> Payload_eq(a.node, b.node)
      [] a.tag = "BlankNode" /\ b.tag = "BlankNode" -> Payload_eq(a.node, b.node)
      [] a.tag = "DefaultGraph" /\ b.tag = "DefaultGraph" -> TRUE
      [] OTHER -> FALSE

GraphName_hash(x) ==
    CASE x.tag = "NamedNode" -> <<0>> \o Payload_hash(x.node)
      [] x.tag = "BlankNode" -> <<1>> \o Payload_hash(x.node)
      [] x.tag = "DefaultGraph" -> <<2>>

\* ------------------------------------------------------------------------
\* impl Into<T>: the conversion the argument's type selects.
Into_NamedNode(x) ==
    CASE x.ty = "NamedNode" -> x
      [] x.ty = "NamedNodeRef" -> NamedNodeRef_into_owned(x)
Into_NamedNodeRef(x) ==
    CASE x.ty = "NamedNodeRef" -> x
      [] x.ty = "NamedNode" -> NamedNode_as_ref(x)
Into_NamedOrBlankNode(x) ==
    CASE x.ty = "NamedOrBlankNode" -> x
      [] x.ty = "NamedNode" -> NamedOrBlankNode_NamedNode(x)
      [] x.ty = "NamedNodeRef" ->
            NamedOrBlankNode_NamedNode(NamedNodeRef_into_owned(x))
      [] x.ty = "BlankNode" -> NamedOrBlankNode_BlankNode(x)
      [] x.ty = "BlankNodeRef" ->
            NamedOrBlankNode_BlankNode(BlankNodeRef_into_owned(x))
      [] x.ty = "NamedOrBlankNodeRef" -> NamedOrBlankNodeRef_into_owned(x)
Into_NamedOrBlankNodeRef(x) ==
    CASE x.ty = "NamedOrBlankNodeRef" -> x
      [] x.ty = "NamedNodeRef" -> NamedOrBlankNodeRef_NamedNode(x)
      [] x.ty = "NamedNode" -> NamedOrBlankNodeRef_NamedNode(NamedNode_as_ref(x))
      [] x.ty = "BlankNodeRef" -> NamedOrBlankNodeRef_BlankNode(x)
      [] x.ty = "BlankNode" -> NamedOrBlankNodeRef_BlankNode(BlankNode_as_ref(x))
      [] x.ty = "NamedOrBlankNode" -> NamedOrBlankNode_as_ref(x)
Into_Term(x) ==
    CASE x.ty = "Term" -> x
      [] x.ty = "NamedNode" -> Term_from_NamedNode(x)
      [] x.ty = "NamedNodeRef" -> Term_from_NamedNode(NamedNodeRef_into_owned(x))
      [] x.ty = "BlankNode" -> Term_from_BlankNode(x)
      [] x.ty = "BlankNodeRef" -> Term_from_BlankNode(BlankNodeRef_into_owned(x))
      [] x.ty = "Literal" -> Term_Literal(x)
      [] x.ty = "LiteralRef" -> Term_Literal(LiteralRef_into_owned(x))
      [] x.ty = "NamedOrBlankNode" -> Term_from_NamedOrBlankNode(x)
      [] x.ty = "NamedOrBlankNodeRef" ->
            Term_from_NamedOrBlankNode(NamedOrBlankNodeRef_into_owned(x))
      [] x.ty = "TermRef" -> TermRef_into_owned(x)
Into_TermRef(x) ==
    CASE x.ty = "TermRef" -> x
      [] x.ty = "NamedNodeRef" -> TermRef_from_NamedNodeRef(x)
      [] x.ty = "NamedNode" -> TermRef_from_NamedNodeRef(NamedNode_as_ref(x))
      [] x.ty = "BlankNodeRef" -> TermRef_from_BlankNodeRef(x)
      [] x.ty = "BlankNode" -> TermRef_from_BlankNodeRef(BlankNode_as_ref(x))
      [] x.ty = "LiteralRef" -> TermRef_Literal(x)
      [] x.ty = "Literal" -> TermRef_Literal(Literal_as_ref(x))
      [] x.ty = "NamedOrBlankNodeRef" -> TermRef_from_NamedOrBlankNodeRef(x)
      [] x.ty = "NamedOrBlankNode" ->
            TermRef_from_NamedOrBlankNodeRef(NamedOrBlankNode_as_ref(x))
      [] x.ty = "Term" -> Term_as_ref(x)
Into_GraphName(x) ==
    CASE x.ty = "GraphName" -> x
      [] x.ty = "NamedNode" -> GraphName_from_NamedNode(x)
      [] x.ty = "NamedNodeRef" -> GraphName_from_NamedNode(NamedNodeRef_into_owned(x))
      [] x.ty = "BlankNode" -> GraphName_from_BlankNode(x)
      [] x.ty = "BlankNodeRef" -> GraphName_from_BlankNode(BlankNodeRef_into_owned(x))
      [] x.ty = "NamedOrBlankNode" -> GraphName_from_NamedOrBlankNode(x)
      [] x.ty = "NamedOrBlankNodeRef" ->
            GraphName_from_NamedOrBlankNode(NamedOrBlankNodeRef_into_owned(x))
      [] x.ty = "Option" -> GraphName_from_Option(x)
      [] x.ty = "GraphNameRef" -> GraphNameRef_into_owned(x)
Into_GraphNameRef(x) ==
    CASE x.ty = "GraphNameRef" -> x
      [] x.ty = "NamedNodeRef" -> GraphNameRef_from_NamedNodeRef(x)
      [] x.ty = "NamedNode" -> GraphNameRef_from_NamedNodeRef(NamedNode_as_ref(x))
      [] x.ty = "BlankNodeRef" -> GraphNameRef_from_BlankNodeRef(x)
      [] x.ty = "BlankNode" -> GraphNameRef_from_BlankNodeRef(BlankNode_as_ref(x))
      [] x.ty = "NamedOrBlankNodeRef" -> GraphNameRef_from_NamedOrBlankNodeRef(x)
      [] x.ty = "NamedOrBlankNode" ->
            GraphNameRef_from_NamedOrBlankNodeRef(NamedOrBlankNode_as_ref(x))
      [] x.ty = "GraphName" -> GraphName_as_ref(x)
      [] x.ty = "Option" -> GraphNameRef_from_Option(x)

\* ------------------------------------------------------------------------
\* Triple / TripleRef
Triple_new(subject, predicate, object) ==
    [ty |-> "Triple",
     subject |-> Into_NamedOrBlankNode(subject),
     predicate |-> Into_NamedNode(predicate),
     object |-> Into_Term(object)]

\* Triple::in_graph that puts every Option, Some or None, in the default
\* graph.
Triple_in_graph_OptionToDefault(self, graph_name) ==
    [ty |-> "Quad",
     subject |-> self.subject,
     predicate |-> self.predicate,
     object |-> self.object,
     graph_name |-> IF graph_name.ty = "Option" THEN GraphName_DefaultGraph
                    ELSE Into_GraphName(graph_name)]

Triple_in_graph(self, graph_name) ==
    [ty |-> "Quad",
     subject |-> self.subject,
     predicate |-> self.predicate,
     object |-> self.object,
     graph_name |-> Into_GraphName(graph_name)]

Triple_as_ref(self) ==
    [ty |-> "TripleRef",
     subject |-> NamedOrBlankNode_as_ref(self.subject),
     predicate |-> NamedNode_as_ref(self.predicate),
     object |-> Term_as_ref(self.object)]

TripleRef_new(subject, predicate, object) ==
    [ty |-> "TripleRef",
     subject |-> Into_NamedOrBlankNodeRef(subject),
     predicate |-> Into_NamedNodeRef(predicate),
     object |-> Into_TermRef(object)]

TripleRef_in_graph(self, graph_name) ==
    [ty |-> "QuadRef",
     subject |-> self.subject,
     predicate |-> self.predicate,
     object |-> self.object,
     graph_name |-> Into_GraphNameRef(graph_name)]

TripleRef_into_owned(self) ==
    [ty |-> "Triple",
     subject |-> NamedOrBlankNodeRef_into_owned(self.subject),
     predicate |-> NamedNodeRef_into_owned(self.predicate),
     object |-> TermRef_into_owned(self.object)]

rio_Triple_from_TripleRef(triple) ==
    [ty |-> "rio::Triple",
     subject |-> rio_NamedOrBlankNode_from_NamedOrBlankNodeRef(triple.subject),
     predicate |-> rio_NamedNode_from(triple.predicate),
     object |-> rio_Term_from_TermRef(triple.object)]

TripleRef_fmt(self) == rio_Triple_fmt(rio_Triple_from_TripleRef(self))
Triple_fmt(self) == TripleRef_fmt(Triple_as_ref(self))

\* #[derive(PartialEq, Hash)] on a struct: field by field, in order.
Triple_eq(a, b) ==
    /\ NamedOrBlankNode_eq(a.subject, b.subject)
    /\ Payload_eq(a.predicate, b.predicate)
    /\ Term_eq(a.object, b.object)
Triple_hash(x) ==
    NamedOrBlankNode_hash(x.subject) \o Payload_hash(x.predicate)
        \o Term_hash(x.object)

\* ------------------------------------------------------------------------
\* Quad / QuadRef
\* Quad::new that validates its arguments and rejects a blank node as the
\* graph name.
Quad_new_RejectsBlankGraph(subject, predicate, object, graph_name) ==
    IF Into_GraphName(graph_name).tag = "BlankNode"
    THEN [ty |-> "Err", error |-> "blank node graph name"]
    ELSE [ty |-> "Quad",
          subject |-> Into_NamedOrBlankNode(subject),
          predicate |-> Into_NamedNode(predicate),
          object |-> Into_Term(object),
          graph_name |-> Into_GraphName(graph_name)]

Quad_new(subject, predicate, object, graph_name) ==
    [ty |-> "Quad",
     subject |-> Into_NamedOrBlankNode(subject),
     predicate |-> Into_NamedNode(predicate),
     object |-> Into_Term(object),
     graph_name |-> Into_GraphName(graph_name)]

Quad_into_triple(self) == Triple_new(self.subject, self.predicate, self.object)

Quad_as_ref(self) ==
    [ty |-> "QuadRef",
     subject |-> NamedOrBlankNode_as_ref(self.subject),
     predicate |-> NamedNode_as_ref(self.predicate),
     object |-> Term_as_ref(self.object),
     graph_name |-> GraphName_as_ref(self.graph_name)]

\* From<Quad> for Triple that takes a non-default graph name for the subject.
Triple_from_Quad_GraphAsSubject(quad) ==
    [ty |-> "Triple",
     subject |-> IF quad.graph_name.tag = "DefaultGraph" THEN quad.subject
                 ELSE [ty |-> "NamedOrBlankNode", tag |-> quad.graph_name.tag,
                       node |-> quad.graph_name.node],
     predicate |-> quad.predicate,
     object |-> quad.object]

Triple_from_Quad(quad) ==
    [ty |-> "Triple",
     subject |-> quad.subject,
     predicate |-> quad.predicate,
     object |-> quad.object]

QuadRef_new(subject, predicate, object, graph_name) ==
    [ty |-> "QuadRef",
     subject |-> Into_NamedOrBlankNodeRef(subject),
     predicate |-> Into_NamedNodeRef(predicate),
     object |-> Into_TermRef(object),
     graph_name |-> Into_GraphNameRef(graph_name)]

\* QuadRef::into_owned that forgets the graph name.
QuadRef_into_owned_NoGraph(self) ==
    [ty |-> "Quad",
     subject |-> NamedOrBlankNodeRef_into_owned(self.subject),
     predicate |-> NamedNodeRef_into_owned(self.predicate),
     object |-> TermRef_into_owned(self.object),
     graph_name |-> GraphName_DefaultGraph]

QuadRef_into_owned(self) ==
    [ty |-> "Quad",
     subject |-> NamedOrBlankNodeRef_into_owned(self.subject),
     predicate |-> NamedNodeRef_into_owned(self.predicate),
     object |-> TermRef_into_owned(self.object),
     graph_name |-> GraphNameRef_into_owned(self.graph_name)]

\* From<QuadRef> for TripleRef that takes a named graph for the predicate.
TripleRef_from_QuadRef_GraphAsPredicate(quad) ==
    [ty |-> "TripleRef",
     subject |-> quad.subject,
     predicate |-> IF quad.graph_name.tag = "NamedNode"
                   THEN quad.graph_name.node ELSE quad.predicate,
     object |-> quad.object]

TripleRef_from_QuadRef(quad) ==
    [ty |-> "TripleRef",
     subject |-> quad.subject,
     predicate |-> quad.predicate,
     object |-> quad.object]

\* From<QuadRef> for rio::Quad that swaps subject and graph name.
rio_Quad_from_QuadRef_Swapped(quad) ==
    [ty |-> "rio::Quad",
     subject |-> IF quad.graph_name.tag = "DefaultGraph"
                 THEN rio_NamedOrBlankNode_from_NamedOrBlankNodeRef(quad.subject)
                 ELSE rio_Option_from_GraphNameRef(quad.graph_name).some,
     predicate |-> rio_NamedNode_from(quad.predicate),
     object |-> rio_Term_from_TermRef(quad.object),
     graph_name |-> IF quad.graph_name.tag = "DefaultGraph"
                    THEN None("rio::NamedOrBlankNode")
                    ELSE Some(rio_NamedOrBlankNode_from_NamedOrBlankNodeRef(
                                  quad.subject))]

rio_Quad_from_QuadRef(quad) ==
    [ty |-> "rio::Quad",
     subject |-> rio_NamedOrBlankNode_from_NamedOrBlankNodeRef(quad.subject),
     predicate |-> rio_NamedNode_from(quad.predicate),
     object |-> rio_Term_from_TermRef(quad.object),
     graph_name |-> rio_Option_from_GraphNameRef(quad.graph_name)]

\* Display for QuadRef that formats the four fields itself, the graph name
\* by its own Display.
QuadRef_fmt_Direct(self) ==
    NamedOrBlankNodeRef_fmt(self.subject) \o " " \o NamedNodeRef_fmt(self.predicate)
        \o " " \o TermRef_fmt(self.object) \o " " \o GraphNameRef_fmt(self.graph_name)

QuadRef_fmt(self) == rio_Quad_fmt(rio_Quad_from_QuadRef(self))
Quad_fmt(self) == QuadRef_fmt(Quad_as_ref(self))

\* Equality of quads that leaves the graph name out.
Quad_eq_IgnoresGraph(a, b) ==
    /\ NamedOrBlankNode_eq(a.subject, b.subject)
    /\ Payload_eq(a.predicate, b.predicate)
    /\ Term_eq(a.object, b.object)

Quad_eq(a, b) ==
    /\ NamedOrBlankNode_eq(a.subject, b.subject)
    /\ Payload_eq(a.predicate, b.predicate)
    /\ Term_eq(a.object, b.object)
    /\ GraphName_eq(a.graph_name, b.graph_name)
Quad_hash(x) ==
    NamedOrBlankNode_hash(x.subject) \o Payload_hash(x.predicate)
        \o Term_hash(x.object) \o GraphName_hash(x.graph_name)

\* ------------------------------------------------------------------------
\* The values the operations are applied to.
NamedNodes == {NamedNode(i) : i \in Iris}
BlankNodes == {BlankNode(i) : i \in BlankIds}
Literals ==
    {[ty |-> "Literal", kind |-> "Simple", value |-> v] : v \in Values}
    \cup {[ty |-> "Literal", kind |-> "LanguageTaggedString", value |-> v,
           language |-> l] : v \in Values, l \in Languages}
    \cup {[ty |-> "Literal", kind |-> "Typed", value |-> v,
           datatype |-> NamedNode(d)] : v \in Values, d \in Datatypes}
NamedNodeRefs == {NamedNodeRef(i) : i \in Iris}
BlankNodeRefs == {BlankNodeRef(i) : i \in BlankIds}
LiteralRefs ==
    {[ty |-> "LiteralRef", kind |-> "Simple", value |-> v] : v \in Values}
    \cup {[ty |-> "LiteralRef", kind |-> "LanguageTaggedString", value |-> v,
           language |-> l] : v \in Values, l \in Languages}
    \cup {[ty |-> "LiteralRef", kind |-> "Typed", value |-> v,
           datatype |-> NamedNodeRef(d)] : v \in Values, d \in Datatypes}

NamedOrBlankNodes ==
    {NamedOrBlankNode_NamedNode(n) : n \in NamedNodes}
    \cup {NamedOrBlankNode_BlankNode(n) : n \in BlankNodes}
NamedOrBlankNodeRefs ==
    {NamedOrBlankNodeRef_NamedNode(n) : n \in NamedNodeRefs}
    \cup {NamedOrBlankNodeRef_BlankNode(n) : n \in BlankNodeRefs}
Terms ==
    {Term_NamedNode(n) : n \in NamedNodes}
    \cup {Term_BlankNode(n) : n \in BlankNodes}
    \cup {Term_Literal(n) : n \in Literals}
TermRefs ==
    {TermRef_NamedNode(n) : n \in NamedNodeRefs}
    \cup {TermRef_BlankNode(n) : n \in BlankNodeRefs}
    \cup {TermRef_Literal(n) : n \in LiteralRefs}
GraphNames ==
    {GraphName_NamedNode(n) : n \in NamedNodes}
    \cup {GraphName_BlankNode(n) : n \in BlankNodes}
    \cup {GraphName_DefaultGraph}
GraphNameRefs ==
    {GraphNameRef_NamedNode(n) : n \in NamedNodeRefs}
    \cup {GraphNameRef_BlankNode(n) : n \in BlankNodeRefs}
    \cup {GraphNameRef_DefaultGraph}
Options ==
    {Some(n) : n \in NamedOrBlankNodes} \cup {None("NamedOrBlankNode")}
OptionRefs ==
    {Some(n) : n \in NamedOrBlankNodeRefs} \cup {None("NamedOrBlankNodeRef")}

Triples ==
    {Triple_new(s, p, o) : s \in NamedOrBlankNodes, p \in NamedNodes, o \in Terms}
TripleRefs ==
    {TripleRef_new(s, p, o) :
        s \in NamedOrBlankNodeRefs, p \in NamedNodeRefs, o \in TermRefs}
Quads ==
    {Quad_new(s, p, o, g) :
        s \in NamedOrBlankNodes, p \in NamedNodes, o \in Terms, g \in GraphNames}
QuadRefs ==
    {QuadRef_new(s, p, o, g) :
        s \in NamedOrBlankNodeRefs, p \in NamedNodeRefs, o \in TermRefs,
        g \in GraphNameRefs}

OwnedTypes == {"NamedOrBlankNode", "Term", "Triple", "GraphName", "Quad"}
RefTypes == {"NamedOrBlankNodeRef", "TermRef", "TripleRef", "GraphNameRef", "QuadRef"}
UnionTypes == {"NamedOrBlankNode", "Term", "GraphName",
               "NamedOrBlankNodeRef", "TermRef", "GraphNameRef"}

ValuesOf(T) ==
    CASE T = "NamedOrBlankNode" -> NamedOrBlankNodes
      [] T = "NamedOrBlankNodeRef" -> NamedOrBlankNodeRefs
      [] T = "Term" -> Terms
      [] T = "TermRef" -> TermRefs
      [] T = "GraphName" -> GraphNames
      [] T = "GraphNameRef" -> GraphNameRefs
      [] T = "Triple" -> Triples
      [] T = "TripleRef" -> TripleRefs
      [] T = "Quad" -> Quads
      [] T = "QuadRef" -> QuadRefs

\* The arguments a caller holds for a constructor: each of a type that is
\* Into the field's type.  flavor tells which constructors they are for.
Components ==
    {[ty |-> "Components", flavor |-> "owned", subject |-> s, predicate |-> p,
      object |-> o, graph_name |-> g] :
        s \in NamedOrBlankNodes \cup NamedNodes \cup BlankNodes,
        p \in NamedNodes,
        o \in Terms,
        g \in GraphNames \cup NamedOrBlankNodes \cup Options}
ComponentRefs ==
    {[ty |-> "Components", flavor |-> "ref", subject |-> s, predicate |-> p,
      object |-> o, graph_name |-> g] :
        s \in NamedOrBlankNodeRefs \cup NamedNodeRefs \cup BlankNodeRefs,
        p \in NamedNodeRefs,
        o \in TermRefs,
        g \in GraphNameRefs \cup NamedOrBlankNodeRefs \cup OptionRefs}

Inputs ==
    NamedOrBlankNodes \cup NamedOrBlankNodeRefs \cup Terms \cup TermRefs
    \cup GraphNames \cup GraphNameRefs \cup Options \cup OptionRefs
    \cup Triples \cup TripleRefs \cup Quads \cup QuadRefs
    \cup Components \cup ComponentRefs

\* What a caller may pass as the graph_name of in_graph: anything that
\* is Into<GraphName>, respectively Into<GraphNameRef<'a>>.
GraphNameArgs ==
    GraphNames \cup GraphNameRefs \cup NamedNodes \cup NamedNodeRefs
    \cup BlankNodes \cup BlankNodeRefs \cup NamedOrBlankNodes
    \cup NamedOrBlankNodeRefs \cup Options
GraphNameRefArgs ==
    GraphNameRefs \cup GraphNames \cup NamedNodeRefs \cup NamedNodes
    \cup BlankNodeRefs \cup BlankNodes \cup NamedOrBlankNodeRefs
    \cup NamedOrBlankNodes \cup OptionRefs

\* ------------------------------------------------------------------------
\* Method resolution: the implementation the static type of x selects.
as_ref(x) ==
    CASE x.ty = "NamedOrBlankNode" -> NamedOrBlankNode_as_ref(x)
      [] x.ty = "Term" -> Term_as_ref(x)
      [] x.ty = "Triple" -> Triple_as_ref(x)
      [] x.ty = "GraphName" -> GraphName_as_ref(x)
      [] x.ty = "Quad" -> Quad_as_ref(x)
into_owned(x) ==
    CASE x.ty = "NamedOrBlankNodeRef" -> NamedOrBlankNodeRef_into_owned(x)
      [] x.ty = "TermRef" -> TermRef_into_owned(x)
      [] x.ty = "TripleRef" -> TripleRef_into_owned(x)
      [] x.ty = "GraphNameRef" -> GraphNameRef_into_owned(x)
      [] x.ty = "QuadRef" -> QuadRef_into_owned(x)
fmt(x) ==
    CASE x.ty = "NamedOrBlankNode" -> NamedOrBlankNode_fmt(x)
      [] x.ty = "NamedOrBlankNodeRef" -> NamedOrBlankNodeRef_fmt(x)
      [] x.ty = "Term" -> Term_fmt(x)
      [] x.ty = "TermRef" -> TermRef_fmt(x)
      [] x.ty = "Triple" -> Triple_fmt(x)
      [] x.ty = "TripleRef" -> TripleRef_fmt(x)
      [] x.ty = "GraphName" -> GraphName_fmt(x)
      [] x.ty = "GraphNameRef" -> GraphNameRef_fmt(x)
      [] x.ty = "Quad" -> Quad_fmt(x)
      [] x.ty = "QuadRef" -> QuadRef_fmt(x)
      [] x.ty = "rio::NamedOrBlankNode" -> rio_Node_fmt(x)
      [] x.ty = "rio::Term" -> rio_Node_fmt(x)
      [] x.ty = "rio::Triple" -> rio_Triple_fmt(x)
      [] x.ty = "rio::Quad" -> rio_Quad_fmt(x)
rio_from(x) ==
    CASE x.ty = "NamedOrBlankNodeRef" ->
            rio_NamedOrBlankNode_from_NamedOrBlankNodeRef(x)
      [] x.ty = "TermRef" -> rio_Term_from_TermRef(x)
      [] x.ty = "TripleRef" -> rio_Triple_from_TripleRef(x)
      [] x.ty = "GraphNameRef" -> rio_Option_from_GraphNameRef(x)
      [] x.ty = "QuadRef" -> rio_Quad_from_QuadRef(x)
tag_queries(x) ==
    CASE x.ty = "NamedOrBlankNode" ->
            [is_named_node |-> NamedOrBlankNode_is_named_node(x),
             is_blank_node |-> NamedOrBlankNode_is_blank_node(x)]
      [] x.ty = "NamedOrBlankNodeRef" ->
            [is_named_node |-> NamedOrBlankNodeRef_is_named_node(x),
             is_blank_node |-> NamedOrBlankNodeRef_is_blank_node(x)]
      [] x.ty = "Term" ->
            [is_named_node |-> Term_is_named_node(x),
             is_blank_node |-> Term_is_blank_node(x),
             is_literal |-> Term_is_literal(x)]
      [] x.ty = "TermRef" ->
            [is_named_node |-> TermRef_is_named_node(x),
             is_blank_node |-> TermRef_is_blank_node(x),
             is_literal |-> TermRef_is_literal(x)]
      [] x.ty = "GraphName" ->
            [is_named_node |-> GraphName_is_named_node(x),
             is_blank_node |-> GraphName_is_blank_node(x),
             is_default_graph |-> GraphName_is_default_graph(x)]
      [] x.ty = "GraphNameRef" ->
            [is_named_node |-> GraphNameRef_is_named_node(x),
             is_blank_node |-> GraphNameRef_is_blank_node(x),
             is_default_graph |-> GraphNameRef_is_default_graph(x)]
eq(a, b) ==
    CASE a.ty \in {"NamedOrBlankNode", "NamedOrBlankNodeRef"} ->
            NamedOrBlankNode_eq(a, b)
      [] a.ty \in {"Term", "TermRef"} -> Term_eq(a, b)
      [] a.ty \in {"GraphName", "GraphNameRef"} -> GraphName_eq(a, b)
      [] a.ty \in {"Triple", "TripleRef"} -> Triple_eq(a, b)
      [] a.ty \in {"Quad", "QuadRef"} -> Quad_eq(a, b)
hash(x) ==
    CASE x.ty \in {"NamedOrBlankNode", "NamedOrBlankNodeRef"} ->
            NamedOrBlankNode_hash(x)
      [] x.ty \in {"Term", "TermRef"} -> Term_hash(x)
      [] x.ty \in {"GraphName", "GraphNameRef"} -> GraphName_hash(x)
      [] x.ty \in {"Triple", "TripleRef"} -> Triple_hash(x)
      [] x.ty \in {"Quad", "QuadRef"} -> Quad_hash(x)

\* The values x is compared with: every value of its type for a union; for
\* a triple or quad, x itself and the values that differ from it in one
\* field.
Others(x) ==
    IF x.ty \in UnionTypes THEN ValuesOf(x.ty)
    ELSE {x}
         \cup {[x EXCEPT !.subject = s] : s \in ValuesOf(x.subject.ty)}
         \cup {[x EXCEPT !.predicate = p] :
                    p \in (IF x.predicate.ty = "NamedNode" THEN NamedNodes
                                                           ELSE NamedNodeRefs)}
         \cup {[x EXCEPT !.object = o] : o \in ValuesOf(x.object.ty)}
         \cup (IF x.ty \in {"Quad", "QuadRef"}
               THEN {[x EXCEPT !.graph_name = g] : g \in ValuesOf(x.graph_name.ty)}
               ELSE {})

\* ------------------------------------------------------------------------
\* State: src is the value a run starts from and val the value it has now;
\* hist lists the operations applied so far; arg is the graph name last
\* given to in_graph.  text, cmp and tags hold what the last operation
\* returned when it was a Display, a comparison or a tag query, and are
\* empty otherwise (each a sequence of at most one element).
VARIABLES src, val, hist, arg, text, cmp, tags
vars == <<src, val, hist, arg, text, cmp, tags>>

Init ==
    /\ src \in Inputs
    /\ val = src
    /\ hist = <<>>
    /\ arg = <<>>
    /\ text = <<>>
    /\ cmp = <<>>
    /\ tags = <<>>

Step(op) == Len(hist) < MaxOps /\ hist' = Append(hist, op)
Forget == text' = <<>> /\ cmp' = <<>> /\ tags' = <<>>

AsRef ==
    /\ val.ty \in OwnedTypes
    /\ Step("as_ref")
    /\ val' = as_ref(val)
    /\ Forget
    /\ UNCHANGED <<src, arg>>

IntoOwned ==
    /\ val.ty \in RefTypes
    /\ Step("into_owned")
    /\ val' = into_owned(val)
    /\ Forget
    /\ UNCHANGED <<src, arg>>

InGraph ==
    /\ val.ty \in {"Triple", "TripleRef"}
    /\ Step("in_graph")
    /\ \E g \in (IF src.ty = "Components"
                THEN (IF (src.flavor = "owned") <=> (val.ty = "Triple")
                      THEN {src.graph_name} ELSE {})
                ELSE IF val.ty = "Triple" THEN GraphNameArgs
                ELSE GraphNameRefArgs) :
        /\ arg' = <<g>>
        /\ val' = IF val.ty = "Triple" THEN Triple_in_graph(val, g)
                                       ELSE TripleRef_in_graph(val, g)
    /\ Forget
    /\ UNCHANGED src

TripleFrom ==
    /\ val.ty \in {"Quad", "QuadRef"}
    /\ Step("triple_from")
    /\ val' = IF val.ty = "Quad" THEN Triple_from_Quad(val)
                                 ELSE TripleRef_from_QuadRef(val)
    /\ Forget
    /\ UNCHANGED <<src, arg>>

IntoTriple ==
    /\ val.ty = "Quad"
    /\ Step("into_triple")
    /\ val' = Quad_into_triple(val)
    /\ Forget
    /\ UNCHANGED <<src, arg>>

GraphNameFromOption ==
    /\ val.ty = "Option"
    /\ val.of \in {"NamedOrBlankNode", "NamedOrBlankNodeRef"}
    /\ Step("graph_name_from")
    /\ val' = IF val.of = "NamedOrBlankNode" THEN GraphName_from_Option(val)
                                             ELSE GraphNameRef_from_Option(val)
    /\ Forget
    /\ UNCHANGED <<src, arg>>

OptionFromGraphName ==
    /\ val.ty \in {"GraphName", "GraphNameRef"}
    /\ Step("option_from")
    /\ val' = IF val.ty = "GraphName" THEN Option_from_GraphName(val)
                                      ELSE Option_from_GraphNameRef(val)
    /\ Forget
    /\ UNCHANGED <<src, arg>>

Widen ==
    /\ val.ty \in {"NamedOrBlankNode", "NamedOrBlankNodeRef"}
    /\ Step("term_from")
    /\ val' = IF val.ty = "NamedOrBlankNode"
              THEN Term_from_NamedOrBlankNode(val)
              ELSE TermRef_from_NamedOrBlankNodeRef(val)
    /\ Forget
    /\ UNCHANGED <<src, arg>>

IntoRio ==
    /\ val.ty \in RefTypes
    /\ Step("rio_from")
    /\ val' = rio_from(val)
    /\ Forget
    /\ UNCHANGED <<src, arg>>

Display ==
    /\ val.ty \in OwnedTypes \cup RefTypes
          \cup {"rio::NamedOrBlankNode", "rio::Term", "rio::Triple", "rio::Quad"}
    /\ Step("fmt")
    /\ text' = <<fmt(val)>>
    /\ cmp' = <<>> /\ tags' = <<>>
    /\ UNCHANGED <<src, val, arg>>

\* a == b together with the hashes of both sides.  Triples and quads are
\* compared as given (before any other operation), against themselves and
\* against every value that differs from them in one field.
Compare ==
    /\ val.ty \in OwnedTypes \cup RefTypes
    /\ val.ty \in UnionTypes \/ hist = <<>>
    /\ Step("eq")
    /\ \E other \in Others(val) :
        cmp' = <<[other |-> other, eq |-> eq(val, other),
                 hash |-> hash(val), other_hash |-> hash(other)]>>
    /\ text' = <<>> /\ tags' = <<>>
    /\ UNCHANGED <<src, val, arg>>

TripleNew ==
    /\ val.ty = "Components"
    /\ Step("triple_new")
    /\ val' = IF val.flavor = "owned"
              THEN Triple_new(val.subject, val.predicate, val.object)
              ELSE TripleRef_new(val.subject, val.predicate, val.object)
    /\ Forget
    /\ UNCHANGED <<src, arg>>

QuadNew ==
    /\ val.ty = "Components"
    /\ Step("quad_new")
    /\ val' = IF val.flavor = "owned"
              THEN Quad_new(val.subject, val.predicate, val.object, val.graph_name)
              ELSE QuadRef_new(val.subject, val.predicate, val.object,
                               val.graph_name)
    /\ Forget
    /\ UNCHANGED <<src, arg>>

TagQuery ==
    /\ val.ty \in UnionTypes
    /\ Step("is")
    /\ tags' = <<tag_queries(val)>>
    /\ text' = <<>> /\ cmp' = <<>>
    /\ UNCHANGED <<src, val, arg>>

Next ==
    \/ TripleNew
    \/ QuadNew
    \/ TagQuery
    \/ AsRef
    \/ IntoOwned
    \/ InGraph
    \/ TripleFrom
    \/ IntoTriple
    \/ GraphNameFromOption
    \/ OptionFromGraphName
    \/ Widen
    \/ IntoRio
    \/ Display
    \/ Compare

Spec == Init /\ [][Next]_vars

\* ------------------------------------------------------------------------
\* Vocabulary of the properties.

\* The text a primitive node carries, whatever its flavor.
PayloadText(n) ==
    CASE n.ty \in {"NamedNode", "NamedNodeRef", "rio::NamedNode"} -> <<"iri", n.iri>>
      [] n.ty \in {"BlankNode", "BlankNodeRef", "rio::BlankNode"} -> <<"id", n.id>>
      [] n.ty \in {"Literal", "LiteralRef", "rio::Literal"} ->
            CASE n.kind = "Simple" -> <<"literal", n.value>>
              [] n.kind = "LanguageTaggedString" ->
                    <<"literal", n.value, "@", n.language>>
              [] n.kind = "Typed" -> <<"literal", n.value, "^^", n.datatype.iri>>

\* Two union values have the same active variant and the same payload.
SameNode(a, b) ==
    /\ a.tag = b.tag
    /\ a.tag # "DefaultGraph" => PayloadText(a.node) = PayloadText(b.node)

\* The active variant of every union-typed field of x.
Variants(x) ==
    CASE x.ty \in UnionTypes -> <<x.tag>>
      [] x.ty \in {"Triple", "TripleRef"} -> <<x.subject.tag, x.object.tag>>
      [] x.ty \in {"Quad", "QuadRef"} ->
            <<x.subject.tag, x.object.tag, x.graph_name.tag>>

\* Display of an owned or borrowed primitive node.
Primitive_fmt(n) ==
    CASE n.ty = "NamedNode" -> NamedNodeRef_fmt(NamedNode_as_ref(n))
      [] n.ty = "NamedNodeRef" -> NamedNodeRef_fmt(n)
      [] n.ty = "BlankNode" -> BlankNodeRef_fmt(BlankNode_as_ref(n))
      [] n.ty = "BlankNodeRef" -> BlankNodeRef_fmt(n)
      [] n.ty = "Literal" -> LiteralRef_fmt(Literal_as_ref(n))
      [] n.ty = "LiteralRef" -> LiteralRef_fmt(n)

\* ------------------------------------------------------------------------
\* C1: for every owned NamedOrBlankNode, Term, Triple, GraphName and Quad x,
\* x.as_ref().into_owned() is x again.
C1_OwnedRoundTrip ==
    (src.ty \in OwnedTypes /\ hist = <<"as_ref", "into_owned">>) => val = src

C1_Witness ==
    /\ src.ty = "Quad"
    /\ src.subject.tag = "BlankNode"
    /\ src.object.tag = "Literal"
    /\ src.graph_name.tag = "NamedNode"
    /\ hist = <<"as_ref", "into_owned">>
    /\ val.ty = "Quad"

\* C2: for every borrowed value v of the five Ref types, v.into_owned().as_ref()
\* has the same active variant in every field and the same payloads as v and
\* renders as v does; as_ref and into_owned never change the active variant.
C2_BorrowedRoundTrip ==
    /\ (src.ty \in RefTypes /\ hist = <<"into_owned", "as_ref">>) =>
            /\ Variants(val) = Variants(src)
            /\ val = src
            /\ fmt(val) = fmt(src)
    /\ (hist = <<"as_ref">> \/ hist = <<"into_owned">>) =>
            Variants(val) = Variants(src)

C2_Witness ==
    /\ src.ty = "QuadRef"
    /\ src.graph_name.tag = "DefaultGraph"
    /\ src.object.tag = "Literal"
    /\ hist = <<"into_owned", "as_ref">>
    /\ val.graph_name.tag = "DefaultGraph"

\* C3: for every Triple t and every graph name g, DefaultGraph included,
\* Triple::from(t.in_graph(g)) is t again.
C3_InGraphThenStrip ==
    (src.ty = "Triple" /\ hist = <<"in_graph", "triple_from">>) => val = src

C3_Witness ==
    /\ src.ty = "Triple"
    /\ hist = <<"in_graph", "triple_from">>
    /\ arg = <<GraphName_DefaultGraph>>
    /\ val.ty = "Triple"

\* C4: GraphName::from maps None to DefaultGraph and Some(n) to the variant of
\* n with n's payload; converting an Option to a GraphName and back, and a
\* GraphName to an Option and back, gives the starting value; the same for
\* GraphNameRef and Option<NamedOrBlankNodeRef>.
C4_GraphNameOptionIso ==
    /\ (src.ty = "Option" /\ hist = <<"graph_name_from">>) =>
            /\ val.ty = (IF src.of = "NamedOrBlankNode" THEN "GraphName"
                                                        ELSE "GraphNameRef")
            /\ src.opt = "None" => val.tag = "DefaultGraph"
            /\ src.opt = "Some" =>
                    val.tag = src.some.tag /\ val.node = src.some.node
    /\ (src.ty = "Option" /\ hist = <<"graph_name_from", "option_from">>) =>
            val = src
    /\ (src.ty \in {"GraphName", "GraphNameRef"}
            /\ hist = <<"option_from", "graph_name_from">>) => val = src

C4_Witness ==
    /\ src = None("NamedOrBlankNodeRef")
    /\ hist = <<"graph_name_from", "option_from">>
    /\ val.opt = "None"

\* C5: Display of a Triple or Quad, in both flavors, is the Display of the
\* rio triple or quad it converts to; the owned flavor renders as its
\* as_ref() view.
C5_DisplayIsRioDisplay ==
    /\ (src.ty \in {"TripleRef", "QuadRef"} /\ hist = <<"fmt">>) =>
            text = <<fmt(rio_from(src))>>
    /\ (src.ty \in {"Triple", "Quad"} /\ hist = <<"fmt">>) =>
            /\ text = <<fmt(rio_from(as_ref(src)))>>
            /\ text = <<fmt(as_ref(src))>>
    /\ (src.ty \in {"TripleRef", "QuadRef"} /\ hist = <<"rio_from", "fmt">>) =>
            text = <<fmt(src)>>

C5_Witness ==
    /\ src.ty = "Quad"
    /\ src.graph_name.tag = "DefaultGraph"
    /\ hist = <<"fmt">>
    /\ Len(text) = 1

\* C6: Display of a NamedOrBlankNode, Term or GraphName (owned or borrowed) is
\* the Display of its payload primitive with nothing added, except
\* DefaultGraph, whose Display is the bare token DEFAULT.
C6_UnionDisplayDelegates ==
    (src.ty \in UnionTypes /\ hist = <<"fmt">>) =>
        text = <<IF src.tag = "DefaultGraph" THEN "DEFAULT"
                                             ELSE Primitive_fmt(src.node)>>

C6_Witness ==
    /\ src = GraphName_DefaultGraph
    /\ hist = <<"fmt">>
    /\ text = <<"DEFAULT">>

\* C7: Triple::new(BlankNode("b1"), NamedNode("http://ex/p"), Literal("v"))
\* put in_graph(NamedNode("http://ex/g")) is a Quad whose Display is
\* _:b1 <http://ex/p> "v" <http://ex/g> and whose Triple::from is the triple.
ScenarioTriple ==
    Triple_new(BlankNode("b1"), NamedNode("http://ex/p"),
               [ty |-> "Literal", kind |-> "Simple", value |-> "v"])
ScenarioGraph == NamedNode("http://ex/g")

C8_VariantAwareEquality ==
    (val.ty \in UnionTypes /\ hist # <<>> /\ hist[Len(hist)] = "eq") =>
        LET a == val
            b == cmp[1].other
        IN  /\ cmp[1].eq <=>
                    (a.tag = b.tag /\ (a.tag # "DefaultGraph" => a.node = b.node))
            /\ a.tag # b.tag => ~cmp[1].eq
            /\ a.tag = "DefaultGraph" => (cmp[1].eq <=> b.tag = "DefaultGraph")

C8_Witness ==
    /\ val.ty = "NamedOrBlankNode"
    /\ hist = <<"eq">>
    /\ val.tag = "NamedNode"
    /\ cmp[1].other.tag = "BlankNode"
    /\ val.node.iri = cmp[1].other.node.id
    /\ ~cmp[1].eq

\* C9: widening a NamedOrBlankNode into a Term (or the Ref twins) keeps the
\* variant and the payload; is_literal() is false on the result and
\* is_named_node / is_blank_node answer as before.
C9_Widening ==
    /\ (src.ty = "NamedOrBlankNode" /\ hist = <<"term_from">>) =>
            /\ val.ty = "Term"
            /\ val.tag = src.tag /\ val.node = src.node
            /\ ~Term_is_literal(val)
            /\ Term_is_named_node(val) = NamedOrBlankNode_is_named_node(src)
            /\ Term_is_blank_node(val) = NamedOrBlankNode_is_blank_node(src)
    /\ (src.ty = "NamedOrBlankNodeRef" /\ hist = <<"term_from">>) =>
            /\ val.ty = "TermRef"
            /\ val.tag = src.tag /\ val.node = src.node
            /\ ~TermRef_is_literal(val)
            /\ TermRef_is_named_node(val) = NamedOrBlankNodeRef_is_named_node(src)
            /\ TermRef_is_blank_node(val) = NamedOrBlankNodeRef_is_blank_node(src)

C9_Witness ==
    /\ src.ty = "NamedOrBlankNode"
    /\ src.tag = "BlankNode"
    /\ hist = <<"term_from">>
    /\ val = Term_BlankNode(src.node)

\* C10: every borrowed type converts into its rio type with the same variant
\* and payload: NamedOrBlankNodeRef and TermRef keep their tag, TripleRef and
\* QuadRef convert field by field, GraphNameRef gives None for DefaultGraph
\* and Some of the same variant otherwise, which is what converting to
\* Option<NamedOrBlankNodeRef> and then converting the node inside gives.
SameGraphName(o, g) ==
    IF g.tag = "DefaultGraph" THEN o.opt = "None"
    ELSE o.opt = "Some" /\ SameNode(o.some, g)
RioOfOption(o) ==
    IF o.opt = "Some"
    THEN Some(rio_NamedOrBlankNode_from_NamedOrBlankNodeRef(o.some))
    ELSE None("rio::NamedOrBlankNode")

C10_RioConversion ==
    (src.ty \in RefTypes /\ hist = <<"rio_from">>) =>
        CASE src.ty = "NamedOrBlankNodeRef" ->
                val.ty = "rio::NamedOrBlankNode" /\ SameNode(val, src)
          [] src.ty = "TermRef" -> val.ty = "rio::Term" /\ SameNode(val, src)
          [] src.ty = "TripleRef" ->
                /\ val.ty = "rio::Triple"
                /\ SameNode(val.subject, src.subject)
                /\ PayloadText(val.predicate) = PayloadText(src.predicate)
                /\ SameNode(val.object, src.object)
          [] src.ty = "QuadRef" ->
                /\ val.ty = "rio::Quad"
                /\ SameNode(val.subject, src.subject)
                /\ PayloadText(val.predicate) = PayloadText(src.predicate)
                /\ SameNode(val.object, src.object)
                /\ SameGraphName(val.graph_name, src.graph_name)
          [] src.ty = "GraphNameRef" ->
                /\ SameGraphName(val, src)
                /\ val = RioOfOption(Option_from_GraphNameRef(src))

C10_Witness ==
    /\ src.ty = "GraphNameRef"
    /\ src.tag = "BlankNode"
    /\ hist = <<"rio_from">>
    /\ val.opt = "Some"
    /\ val.some.tag = "BlankNode"

\* C11: no operation fails: the constructors, in_graph, as_ref, into_owned,
\* the From conversions and the tag queries give, for every variant of every
\* input, a value of their result type and never an error outcome; no
\* combination of valid components is rejected by a constructor.
RioNodeOK(x, T, tagset) ==
    /\ x.ty = T
    /\ x.tag \in tagset
    /\ x.node.ty = "rio::" \o x.tag
ResultOK(x) ==
    CASE x.ty \in OwnedTypes \cup RefTypes -> x \in ValuesOf(x.ty)
      [] x.ty = "Components" -> x \in Components \cup ComponentRefs
      [] x.ty = "Option" /\ x.of = "NamedOrBlankNode" -> x \in Options
      [] x.ty = "Option" /\ x.of = "NamedOrBlankNodeRef" -> x \in OptionRefs
      [] x.ty = "Option" /\ x.of = "rio::NamedOrBlankNode" ->
            x.opt = "Some" =>
                RioNodeOK(x.some, "rio::NamedOrBlankNode", {"NamedNode", "BlankNode"})
      [] x.ty = "rio::NamedOrBlankNode" ->
            RioNodeOK(x, "rio::NamedOrBlankNode", {"NamedNode", "BlankNode"})
      [] x.ty = "rio::Term" ->
            RioNodeOK(x, "rio::Term", {"NamedNode", "BlankNode", "Literal"})
      [] x.ty = "rio::Triple" ->
            /\ RioNodeOK(x.subject, "rio::NamedOrBlankNode", {"NamedNode", "BlankNode"})
            /\ x.predicate.ty = "rio::NamedNode"
            /\ RioNodeOK(x.object, "rio::Term", {"NamedNode", "BlankNode", "Literal"})
      [] x.ty = "rio::Quad" ->
            /\ RioNodeOK(x.subject, "rio::NamedOrBlankNode", {"NamedNode", "BlankNode"})
            /\ x.predicate.ty = "rio::NamedNode"
            /\ RioNodeOK(x.object, "rio::Term", {"NamedNode", "BlankNode", "Literal"})
            /\ x.graph_name.ty = "Option"
            /\ x.graph_name.opt = "Some" =>
                    RioNodeOK(x.graph_name.some, "rio::NamedOrBlankNode",
                              {"NamedNode", "BlankNode"})
      [] OTHER -> FALSE

\* The type the operation op gives for a receiver of type T.
Owned(T) ==
    CASE T = "NamedOrBlankNodeRef" -> "NamedOrBlankNode"
      [] T = "TermRef" -> "Term"
      [] T = "TripleRef" -> "Triple"
      [] T = "GraphNameRef" -> "GraphName"
      [] T = "QuadRef" -> "Quad"
ResultType(op, x) ==
    CASE op = "as_ref" -> x.ty \o "Ref"
      [] op = "into_owned" -> Owned(x.ty)
      [] op = "in_graph" -> IF x.ty = "Triple" THEN "Quad" ELSE "QuadRef"
      [] op \in {"triple_from", "into_triple"} ->
            IF x.ty = "Quad" THEN "Triple" ELSE "TripleRef"
      [] op = "triple_new" -> IF x.flavor = "owned" THEN "Triple" ELSE "TripleRef"
      [] op = "quad_new" -> IF x.flavor = "owned" THEN "Quad" ELSE "QuadRef"
      [] op = "graph_name_from" ->
            IF x.of = "NamedOrBlankNode" THEN "GraphName" ELSE "GraphNameRef"
      [] op = "option_from" -> "Option"
      [] op = "term_from" ->
            IF x.ty = "NamedOrBlankNode" THEN "Term" ELSE "TermRef"
      [] op \in {"fmt", "eq", "is"} -> x.ty
      [] op = "rio_from" ->
            CASE x.ty = "NamedOrBlankNodeRef" -> "rio::NamedOrBlankNode"
              [] x.ty = "TermRef" -> "rio::Term"
              [] x.ty = "TripleRef" -> "rio::Triple"
              [] x.ty = "GraphNameRef" -> "Option"
              [] x.ty = "QuadRef" -> "rio::Quad"

C11_NoOperationFails ==
    /\ hist # <<>> => ResultOK(val)
    /\ Len(hist) = 1 => val.ty = ResultType(hist[1], src)
    /\ Len(tags) = 1 => \A q \in DOMAIN tags[1] : tags[1][q] \in BOOLEAN

C11_Witness ==
    /\ src.ty = "Components"
    /\ src.flavor = "owned"
    /\ src.subject.ty = "BlankNode"
    /\ src.object.tag = "Literal"
    /\ src.graph_name = Some(NamedOrBlankNode_BlankNode(src.subject))
    /\ hist = <<"quad_new">>
    /\ val \in Quads

\* C12: equality and hashing agree for NamedOrBlankNode, Term, Triple,
\* GraphName and Quad, owned and borrowed: values that compare equal have the
\* same hash.
C12_EqImpliesSameHash ==
    (hist # <<>> /\ hist[Len(hist)] = "eq") =>
        (cmp[1].eq => cmp[1].hash = cmp[1].other_hash)

C12_Witness ==
    /\ val.ty = "QuadRef"
    /\ val.graph_name.tag = "BlankNode"
    /\ hist = <<"eq">>
    /\ cmp[1].eq
    /\ cmp[1].hash = cmp[1].other_hash

\* C13: converting a quad to a triple (Triple::from, TripleRef::from,
\* Quad::into_triple) copies subject, predicate and object unchanged and drops
\* only graph_name: the quad with any other graph name converts to an equal
\* triple, and for a QuadRef converting then owning equals owning then
\* converting.
C13_DropsOnlyGraphName ==
    /\ (src.ty \in {"Quad", "QuadRef"}
            /\ hist \in {<<"triple_from">>, <<"into_triple">>}) =>
          /\ val.ty = (IF src.ty = "Quad" THEN "Triple" ELSE "TripleRef")
          /\ DOMAIN val = {"ty", "subject", "predicate", "object"}
          /\ val.subject = src.subject
          /\ val.predicate = src.predicate
          /\ val.object = src.object
          /\ \A g \in ValuesOf(src.graph_name.ty) :
                LET other == [src EXCEPT !.graph_name = g]
                IN  IF src.ty = "Quad"
                    THEN /\ eq(val, Triple_from_Quad(other))
                         /\ eq(val, Quad_into_triple(other))
                    ELSE eq(val, TripleRef_from_QuadRef(other))
    /\ (src.ty = "QuadRef" /\ hist = <<"into_owned", "triple_from">>) =>
          eq(val, TripleRef_into_owned(TripleRef_from_QuadRef(src)))
    /\ (src.ty = "QuadRef" /\ hist = <<"triple_from", "into_owned">>) =>
          eq(val, Triple_from_Quad(QuadRef_into_owned(src)))

C13_Witness ==
    /\ src.ty = "QuadRef"
    /\ src.graph_name.tag = "NamedNode"
    /\ src.graph_name.node # src.predicate
    /\ src.object.tag = "Literal"
    /\ hist = <<"triple_from", "into_owned">>
    /\ val = Triple_from_Quad(QuadRef_into_owned(src))

\* C14: Quad::new(s, p, o, g) equals Triple::new(s, p, o).in_graph(g), and
\* QuadRef::new equals TripleRef::new followed by in_graph; the graph_name
\* of the result is g converted: a GraphName stays, a NamedOrBlankNode keeps
\* its tag and payload and is never DefaultGraph, None is DefaultGraph and
\* Some(n) is n converted.
C14_TwoWaysAgree ==
    src.ty = "Components" =>
        LET g == src.graph_name
            direct == IF src.flavor = "owned"
                      THEN Quad_new(src.subject, src.predicate, src.object, g)
                      ELSE QuadRef_new(src.subject, src.predicate, src.object, g)
            n == IF g.ty = "Option" /\ g.opt = "Some" THEN g.some ELSE g
        IN  /\ hist = <<"triple_new", "in_graph">> =>
                  arg = <<g>> /\ eq(val, direct)
            /\ hist = <<"quad_new">> =>
                  /\ val.graph_name.ty =
                        (IF src.flavor = "owned" THEN "GraphName" ELSE "GraphNameRef")
                  /\ CASE g.ty \in {"GraphName", "GraphNameRef"} ->
                              val.graph_name = g
                        [] g.ty = "Option" /\ g.opt = "None" ->
                              val.graph_name.tag = "DefaultGraph"
                        [] OTHER ->
                              /\ val.graph_name.tag = n.tag
                              /\ val.graph_name.tag # "DefaultGraph"
                              /\ val.graph_name.node = n.node

C14_Witness ==
    /\ src.ty = "Components"
    /\ src.flavor = "owned"
    /\ src.graph_name.ty = "Option"
    /\ src.graph_name.opt = "Some"
    /\ src.graph_name.some.tag = "BlankNode"
    /\ hist = <<"triple_new", "in_graph">>
    /\ val = Quad_new(src.subject, src.predicate, src.object, src.graph_name)
    /\ val.graph_name.tag = "BlankNode"

\* ------------------------------------------------------------------------
TypeOK ==
    /\ Len(hist) <= MaxOps
    /\ Len(text) <= 1
====
